---- MODULE Spec2Model ----
(***************************************************************************)
(* Model of the two diabetes dataset loaders of AIF360:                    *)
(*   aif360/sklearn/datasets/diabetes_dataset.py  fetch_diabetes           *)
(*   aif360/datasets/diabetes_dataset.py          DiabetesDataset.__init__ *)
(* State: the file system entries the loaders touch, the remote CSV, the   *)
(* standard output of the running program and the record of the last call. *)
(* pandas' read_csv / to_csv / replace / mode / fillna are modelled by     *)
(* what they do to a table of cells (type inference per column, NaN        *)
(* written as the empty field, modes returned in sorted order).            *)
(***************************************************************************)
EXTENDS Integers, Sequences, FiniteSets, TLC

VARIABLES remote, fs, silent_downcast, stdout, last

vars == <<remote, fs, silent_downcast, stdout, last>>

-----------------------------------------------------------------------------
(* Bounds *)

\* number of data rows of the remote CSV
NRows == 3

-----------------------------------------------------------------------------
(* os.path on paths held as sequences of segments *)

dirname(p) == SubSeq(p, 1, Len(p) - 1)

basename(p) == p[Len(p)]

join(p, q) == p \o q

RECURSIVE normpath(_)
normpath(p) ==
  IF p = <<>> THEN <<>>
  ELSE LET h == normpath(dirname(p))
           s == basename(p)
       IN IF s = ".." THEN (IF h = <<>> THEN <<>> ELSE dirname(h))
          ELSE Append(h, s)

\* abspath(__file__) of the two modules
SklearnFile == <<"aif360", "sklearn", "datasets", "diabetes_dataset.py">>

DatasetsFile == <<"aif360", "datasets", "diabetes_dataset.py">>

DATA_HOME_DEFAULT == join(dirname(SklearnFile), <<"..", "data", "raw">>)

DIABETES_URL ==
  <<"https:", "", "raw.githubusercontent.com", "angelmanzur",
    "Diabetes_130Hospitals", "master", "dataset_diabetes", "diabetic_data.csv">>

\* data_home=None (falsy) is the empty path; the other choice is a caller's folder
NoHome == <<>>

CustomHome == <<"tmp", "aif360_cache">>

DataHomes == {NoHome, CustomHome}

cache_path(data_home) ==
  join(IF data_home # NoHome THEN data_home ELSE DATA_HOME_DEFAULT,
       <<basename(DIABETES_URL)>>)

filepath ==
  join(dirname(DatasetsFile), <<"..", "data", "raw", "diabetes", "diabetic_data.csv">>)

\* variant: one '..' only
printed_folder_one_up ==
  normpath(join(DatasetsFile, <<"..", "data", "raw", "diabetes">>))

\* the folder the constructor prints when the file is missing
printed_folder ==
  normpath(join(DatasetsFile, <<"..", "..", "data", "raw", "diabetes">>))

-----------------------------------------------------------------------------
(* Tables *)

index_col == "encounter_id"

target == "readmitted"

\* variant: one protected attribute is left out
prot_attr_two == <<"admission_type_id", "discharge_disposition_id">>

prot_attr == <<"admission_type_id", "discharge_disposition_id", "admission_source_id">>

\* the columns of the CSV the model carries, in file order
Columns ==
  <<"encounter_id", "race", "age", "weight", "admission_type_id",
    "discharge_disposition_id", "admission_source_id", "time_in_hospital",
    "payer_code", "readmitted">>

Range(s) == {s[i] : i \in DOMAIN s}

ColSet == Range(Columns)

NaN == "<NaN>"

Sentinel == "?"

LabelMap == ("NO" :> "1") @@ ("<30" :> "2") @@ (">30" :> "3")

SentinelMap == (Sentinel :> NaN)

Buckets ==
  <<"[0-10)", "[10-20)", "[20-30)", "[30-40)", "[40-50)",
    "[50-60)", "[60-70)", "[70-80)", "[80-90)", "[90-100)">>

BucketMap == [b \in Range(Buckets) |-> ToString(CHOOSE i \in DOMAIN Buckets : Buckets[i] = b)]

Labels == <<"NO", "<30", ">30">>

\* Python's order on the strings that occur (code-point lexicographic)
StrOrder ==
  <<"01", "1", "1.0", "10", "2", "2.0", "3", "3.0", "4", "4.0", "5", "6", "7", "8", "9",
    "<30", ">30", "?", "MC", "NO",
    "[0-10)", "[10-20)", "[20-30)", "[30-40)", "[40-50)", "[50-60)", "[60-70)",
    "[70-80)", "[75-100)", "[80-90)", "[90-100)", "a", "b">>

Rank(s) == CHOOSE i \in DOMAIN StrOrder : StrOrder[i] = s

-----------------------------------------------------------------------------
(* CSV text and pandas.read_csv / DataFrame.to_csv *)

\* a CSV text: the number of lines present (header included; 0 is the empty
\* file) and, per column, the fields of the data lines
CsvText(n, cells) == [lines |-> n, cells |-> cells]

\* the empty file: no line, no column
NoText == CsvText(0, <<>>)

\* the first n lines of a text (what a write interrupted after n lines leaves)
Truncate(t, n) ==
  IF n = 0 THEN NoText
  ELSE CsvText(n, [c \in ColSet |-> SubSeq(t.cells[c], 1, n - 1)])

\* pandas' default NA strings (those over the model's alphabet)
NaTexts == {"", "NA", "NaN", "nan", "NULL", "null", "N/A", "n/a"}

IntCanon ==
  [s \in {"01", "1", "2", "3", "4", "5", "6", "7", "8", "9", "10"} |->
     IF s = "01" THEN "1" ELSE s]

FloatTexts == {"1.0", "2.0", "3.0", "4.0"}

IsInt(s) == s \in DOMAIN IntCanon

IsFloat(s) == s \in FloatTexts

\* repr of the float64 holding an integer value
ToFloat(s) == s \o ".0"

\* a function evaluated once, as the table of its values
Eager(f) == f @@ <<>>

Column(dtype, vals) == [dtype |-> dtype, vals |-> Eager(vals)]

\* the C parser's per-column type inference
ParseColumn(cells, na_values) ==
  LET isna(s) == s \in NaTexts \cup na_values
      present == {i \in DOMAIN cells : ~isna(cells[i])}
  IN  IF Len(cells) = 0 THEN Column("object", <<>>)
      ELSE IF \A i \in present : IsInt(cells[i])
      THEN IF present = DOMAIN cells
           THEN Column("int64", [i \in DOMAIN cells |-> IntCanon[cells[i]]])
           ELSE Column("float64",
                  [i \in DOMAIN cells |->
                     IF i \in present THEN ToFloat(IntCanon[cells[i]]) ELSE NaN])
      ELSE IF \A i \in present : IsInt(cells[i]) \/ IsFloat(cells[i])
      THEN Column("float64",
             [i \in DOMAIN cells |->
                IF i \notin present THEN NaN
                ELSE IF IsInt(cells[i]) THEN ToFloat(IntCanon[cells[i]])
                ELSE cells[i]])
      ELSE Column("object",
             [i \in DOMAIN cells |-> IF i \in present THEN cells[i] ELSE NaN])

\* pd.read_csv of a text with at least its header line
read_csv(t, na_values) == Eager([c \in ColSet |-> ParseColumn(t.cells[c], na_values)])

\* variant: to_csv(na_rep='?')
FormatCell_na_rep(v) == IF v = NaN THEN Sentinel ELSE v

FormatCell(v) == IF v = NaN THEN "" ELSE v

\* df.to_csv: header line, then one line per row
to_csv(df) ==
  CsvText(1 + Len(df[index_col].vals),
          Eager([c \in ColSet |-> Eager([i \in DOMAIN df[c].vals |-> FormatCell(df[c].vals[i])])]))

\* no table
NoDF == <<>>

NumRows(df) == Len(df[index_col].vals)

-----------------------------------------------------------------------------
(* The file system *)

CacheDir(h) == normpath(dirname(cache_path(h)))

CacheFile(h) == normpath(cache_path(h))

LocalFile == normpath(filepath)

FsPaths == {CacheDir(h) : h \in DataHomes} \cup {CacheFile(h) : h \in DataHomes}
             \cup {LocalFile}

Absent == [kind |-> "absent", text |-> NoText]

Dir == [kind |-> "dir", text |-> NoText]

File(t) == [kind |-> "file", text |-> t]

\* variant: a cache file counts only when it is complete
isfile_validated(f, p) ==
  f[normpath(p)].kind = "file" /\ f[normpath(p)].text.lines = 1 + NRows

isfile(f, p) == f[normpath(p)].kind = "file"

makedirs(f, p) == [f EXCEPT ![normpath(p)] = Dir]

write(f, p, t) == [f EXCEPT ![normpath(p)] = File(t)]

-----------------------------------------------------------------------------
(* Normalisation: the three DataFrame.replace calls and the fill *)

\* Series.replace with a dict of strings: only object columns can hold the
\* keys. When something was replaced and the column is left with no value at
\* all, pandas re-infers its dtype (float64) unless silent downcasting is off.
ReplaceColumn(col, map, downcast) ==
  IF col.dtype # "object" THEN col
  ELSE LET hit == \E i \in DOMAIN col.vals : col.vals[i] \in DOMAIN map
           new == [i \in DOMAIN col.vals |->
                     IF col.vals[i] \in DOMAIN map THEN map[col.vals[i]]
                     ELSE col.vals[i]]
       IN  IF hit /\ downcast /\ \A i \in DOMAIN new : new[i] = NaN
           THEN Column("float64", new)
           ELSE Column("object", new)

\* the record-id column is the index: replace and the fill leave it alone
replace(df, map, downcast) ==
  Eager([c \in ColSet |-> IF c = index_col THEN df[c] ELSE ReplaceColumn(df[c], map, downcast)])

remap_target(df, downcast) == replace(df, LabelMap, downcast)

\* variant: the sentinel remap is left out
remap_null_skipped(df, downcast) == df

remap_null(df, downcast) == replace(df, SentinelMap, downcast)

remap_age(df, downcast) == replace(df, BucketMap, downcast)

Observed(vals) == {i \in DOMAIN vals : vals[i] # NaN}

Count(vals, v) == Cardinality({i \in DOMAIN vals : vals[i] = v})

\* Series.mode(): the most frequent values, sorted
Modes(vals) ==
  {vals[i] : i \in {j \in Observed(vals) :
                      \A k \in Observed(vals) : Count(vals, vals[k]) <= Count(vals, vals[j])}}

\* variant: the mode met first in row order
mode0_first_seen(vals) ==
  vals[CHOOSE i \in Observed(vals) :
         /\ vals[i] \in Modes(vals)
         /\ \A j \in Observed(vals) : vals[j] \in Modes(vals) => i <= j]

\* .mode()[0]: the first of the sorted modes
mode0(vals) == CHOOSE v \in Modes(vals) : \A w \in Modes(vals) : Rank(v) <= Rank(w)

fillna(vals, v) == [i \in DOMAIN vals |-> IF vals[i] = NaN THEN v ELSE vals[i]]

\* the columns the fill loop visits
select_dtypes_object(df) == {c \in ColSet \ {index_col} : df[c].dtype = "object"}

\* mode()[0] of a column with no observed value raises KeyError
fill_raises(df) == \E c \in select_dtypes_object(df) : Observed(df[c].vals) = {}

fill_na(df) ==
  Eager([c \in ColSet |->
     IF c \in select_dtypes_object(df) /\ Observed(df[c].vals) # {}
     THEN Column("object", fillna(df[c].vals, mode0(df[c].vals)))
     ELSE df[c]])

\* lines 56-69 in order
Remapped(df, downcast) ==
  remap_age(remap_null(remap_target(df, downcast), downcast), downcast)

-----------------------------------------------------------------------------
(* standardize_dataset (aif360.sklearn.datasets.utils): column selection *)

None == <<>>

\* the default usecols and dropcols, over the columns the model carries
DefaultUsecols ==
  <<"race", "age", "admission_type_id", "discharge_disposition_id",
    "admission_source_id", "time_in_hospital">>

DefaultDropcols == <<"weight", "payer_code">>

DataCols == ColSet \ {index_col}

IsNumeric(col) == col.dtype \in {"int64", "float64"}

NoDataset == [cols |-> <<>>, target |-> "", prot_attr |-> <<>>, rows |-> <<>>, data |-> NoDF]

standardize_error(df, prot, tgt, usecols, dropcols) ==
  IF ~ (Range(prot) \cup {tgt} \cup Range(usecols) \cup Range(dropcols) \subseteq DataCols)
  THEN "UnknownColumnError"
  ELSE IF Range(dropcols) \cap (Range(prot) \cup {tgt}) # {}
  THEN "ProtectedColumnConflictError"
  ELSE ""

standardize_dataset(df, prot, tgt, usecols, dropcols, numeric_only, dropna) ==
  LET keep0 == IF usecols # None THEN Range(usecols) \cup {tgt} \cup Range(prot)
               ELSE DataCols
      keep1 == keep0 \ Range(dropcols)
      keep2 == IF numeric_only THEN {c \in keep1 : IsNumeric(df[c]) \/ c = tgt}
               ELSE keep1
      IsKept(c) == c \in keep2
      IsRow(i) == ~dropna \/ \A c \in keep2 : df[c].vals[i] # NaN
      rows == SelectSeq([i \in 1..NumRows(df) |-> i], IsRow)
  IN  [cols |-> SelectSeq(Columns, IsKept), target |-> tgt, prot_attr |-> prot,
       rows |-> rows,
       data |-> [c \in ColSet |->
                   IF c \in keep2 \cup {index_col}
                   THEN Column(df[c].dtype, [k \in DOMAIN rows |-> df[c].vals[rows[k]]])
                   ELSE Column("dropped", <<>>)]]

-----------------------------------------------------------------------------
(* The remote CSV and the local copy *)

RowIds == 1..NRows

\* the cells of the columns that do not vary, by row
FixedCell(c, i) ==
  CASE c = "encounter_id" -> ToString(i)
    [] c = "age" -> Buckets[((i - 1) % 10) + 1]
    [] c = "weight" -> IF i = 1 THEN "[75-100)" ELSE Sentinel
    [] c = "admission_type_id" -> ToString(((i - 1) % 8) + 1)
    [] c = "discharge_disposition_id" -> ToString((i % 3) + 1)
    [] c = "admission_source_id" -> ToString(((i + 1) % 2) + 1)
    [] c = "time_in_hospital" -> ToString(i)
    [] c = "payer_code" -> IF i % 2 = 1 THEN "MC" ELSE Sentinel
    [] c = "readmitted" -> Labels[((i - 1) % 3) + 1]

RemoteText(race) ==
  CsvText(1 + NRows,
          [c \in ColSet |-> [i \in RowIds |-> IF c = "race" THEN race[i] ELSE FixedCell(c, i)]])

\* the cells the race column is drawn from
CacheCells == {"1", ""}

NormCells == {Sentinel, "NO", "a", "b", "1", ""}

-----------------------------------------------------------------------------
(* The record of a call *)

NoCall ==
  [op |-> "none", data_home |-> NoHome, cache |-> FALSE, usecols |-> None,
   dropcols |-> None, numeric_only |-> FALSE, dropna |-> FALSE, net |-> "",
   na_values |-> <<>>, hit |-> FALSE, contacted |-> FALSE,
   stored |-> FALSE, outcome |-> "none", err |-> "", status |-> 0, base_calls |-> 0,
   df |-> NoDF, norm |-> NoDF, ret |-> NoDataset, prev_same |-> FALSE]

Line(text, path) == [text |-> text, path |-> path]

\* what the except branch of the constructor prints (lines 91-97)
MissingFileMessage ==
  <<Line("IOError: {}", filepath),
    Line("To use this class, please download the following file:", <<>>),
    Line("https://archive.ics.uci.edu/ml/machine-learning-databases/00296/dataset_diabetes.zip", <<>>),
    Line("unzip it and place the files, as-is, in the folder:", <<>>),
    Line("{}", printed_folder)>>

-----------------------------------------------------------------------------
(* fetch_diabetes *)

NetOutcomes == {"ok", "unreachable", "garbled"}

\* variant: the cache flag is not consulted
cache_hit_ignores_flag(f, data_home, cache) == isfile(f, cache_path(data_home))

\* line 48: the cache is used when asked for and the file is there
cache_hit(f, data_home, cache) == cache /\ isfile(f, cache_path(data_home))

\* variant: every retrieved table is stored
cache_store_always(cache, hit) == ~hit

\* lines 50-52: a table retrieved from the remote source is stored when asked for
cache_store(cache, hit) == ~hit /\ cache

\* variant: a failed retrieval is swallowed
read_error_swallowed(hit, text, net) ==
  IF hit /\ text.lines = 0 THEN "EmptyDataError" ELSE ""

\* what pd.read_csv raises ("" when it returns): line 49 on the cache file,
\* line 51 on the URL
read_error(hit, text, net) ==
  IF hit THEN (IF text.lines = 0 THEN "EmptyDataError" ELSE "")
  ELSE IF net = "unreachable" THEN "URLError"
  ELSE IF net = "garbled" THEN "ParserError"
  ELSE ""

fetch_diabetes(data_home, cache, usecols, dropcols, numeric_only, dropna, net) ==
  LET hit == cache_hit(fs, data_home, cache)
      text == IF hit THEN fs[CacheFile(data_home)].text ELSE remote
      stored == cache_store(cache, hit)
      call == [NoCall EXCEPT
                 !.op = "fetch", !.data_home = data_home, !.cache = cache,
                 !.usecols = usecols, !.dropcols = dropcols,
                 !.numeric_only = numeric_only, !.dropna = dropna,
                 !.net = IF hit THEN "" ELSE net,
                 !.hit = hit, !.contacted = ~hit,
                 !.prev_same = /\ last.op = "fetch" /\ last.outcome = "returned"
                               /\ last.cache /\ cache
                               /\ last.data_home = data_home
                               /\ last.usecols = usecols /\ last.dropcols = dropcols
                               /\ last.numeric_only = numeric_only
                               /\ last.dropna = dropna]
  IN  /\ UNCHANGED <<remote, silent_downcast>>
      /\ stdout' = <<>>
      /\ IF read_error(hit, text, net) # ""
         THEN /\ fs' = fs
              /\ last' = [call EXCEPT !.outcome = "raised",
                                      !.err = read_error(hit, text, net)]
         ELSE \E df \in {read_csv(text, {})} :
              \E pre \in {Remapped(df, silent_downcast)} :
              \E norm \in {fill_na(pre)} :
              \E serr \in {standardize_error(norm, prot_attr, target, usecols, dropcols)} :
              /\ fs' = IF stored
                       THEN write(makedirs(fs, dirname(cache_path(data_home))),
                                  cache_path(data_home), to_csv(df))
                       ELSE fs
              /\ last' =
                   IF fill_raises(pre)
                   THEN [call EXCEPT !.stored = stored, !.df = df,
                                     !.outcome = "raised", !.err = "KeyError"]
                   ELSE IF serr # ""
                   THEN [call EXCEPT !.stored = stored, !.df = df, !.norm = norm,
                                     !.outcome = "raised", !.err = serr]
                   ELSE [call EXCEPT !.stored = stored, !.df = df, !.norm = norm,
                                     !.outcome = "returned",
                                     !.ret = standardize_dataset(norm, prot_attr, target,
                                               usecols, dropcols, numeric_only, dropna)]

\* the process is killed inside lines 53-54: after makedirs, before the file
\* is opened (opened = FALSE) or after n of its lines reached the disk
fetch_diabetes_killed(data_home, opened, n) ==
  /\ ~isfile(fs, cache_path(data_home))
  /\ LET made == makedirs(fs, dirname(cache_path(data_home)))
     IN  fs' = IF opened
               THEN write(made, cache_path(data_home),
                          Truncate(to_csv(read_csv(remote, {})), n))
               ELSE made
  /\ last' = [NoCall EXCEPT !.op = "fetch", !.data_home = data_home, !.cache = TRUE,
                            !.usecols = DefaultUsecols, !.dropcols = DefaultDropcols,
                            !.dropna = TRUE, !.net = "ok", !.contacted = TRUE,
                            !.outcome = "killed"]
  /\ stdout' = <<>>
  /\ UNCHANGED <<remote, silent_downcast>>

-----------------------------------------------------------------------------
(* DiabetesDataset.__init__ *)

DiabetesDataset(na_values) ==
  LET e == fs[LocalFile]
      call == [NoCall EXCEPT !.op = "ctor", !.na_values = na_values]
  IN  /\ UNCHANGED <<remote, fs, silent_downcast>>
      /\ IF e.kind # "file"
         THEN \* IOError: print the instructions and sys.exit(1)
              /\ stdout' = MissingFileMessage
              /\ last' = [call EXCEPT !.outcome = "exit", !.err = "IOError", !.status = 1]
         ELSE IF e.text.lines = 0
         THEN \* pandas.errors.EmptyDataError is no IOError: it propagates
              /\ stdout' = <<>>
              /\ last' = [call EXCEPT !.outcome = "raised", !.err = "EmptyDataError"]
         ELSE /\ stdout' = <<>>
              /\ last' = [call EXCEPT !.outcome = "returned", !.base_calls = 1,
                                      !.df = read_csv(e.text, Range(na_values))]

-----------------------------------------------------------------------------
(* Specifications *)

LocalEntry(k) ==
  IF k = "absent" THEN Absent ELSE IF k = "empty" THEN File(NoText) ELSE File(remote)

InitWith(cells, locals, downcasts) ==
  /\ remote \in {RemoteText(r) : r \in [RowIds -> cells]}
  /\ fs \in {[p \in FsPaths |-> IF p = LocalFile THEN LocalEntry(k) ELSE Absent] :
               k \in locals}
  /\ silent_downcast \in downcasts
  /\ stdout = <<>>
  /\ last = NoCall

\* caching: both cache folders, every network outcome, default column options
\* (no string in the race column, so the downcast setting plays no part)
Init == InitWith(CacheCells, {"absent"}, {TRUE})

Fetch ==
  \E h \in DataHomes, cache \in BOOLEAN, net \in NetOutcomes :
    fetch_diabetes(h, cache, DefaultUsecols, DefaultDropcols, FALSE, TRUE, net)

Killed ==
  \E h \in DataHomes, opened \in BOOLEAN, n \in 0..NRows :
    fetch_diabetes_killed(h, opened, n)

Next == Fetch \/ Killed

Spec == Init /\ [][Next]_vars

\* normalisation: every table over NormCells, fetched without the cache
InitNorm == InitWith(NormCells, {"absent"}, BOOLEAN)

NextNorm == fetch_diabetes(NoHome, FALSE, DefaultUsecols, DefaultDropcols, FALSE, TRUE, "ok")

SpecNorm == InitNorm /\ [][NextNorm]_vars

\* column selection: the caller's usecols, dropcols, numeric_only and dropna
UsecolsChoices == {DefaultUsecols, None, <<"race">>, <<"gender">>}

DropcolsChoices ==
  {DefaultDropcols, None, <<"readmitted">>, <<"admission_source_id">>}

InitStd == InitWith(CacheCells, {"absent"}, {TRUE})

NextStd ==
  \E u \in UsecolsChoices, d \in DropcolsChoices, numeric_only \in BOOLEAN, dropna \in BOOLEAN :
    fetch_diabetes(NoHome, FALSE, u, d, numeric_only, dropna, "ok")

SpecStd == InitStd /\ [][NextStd]_vars

\* the local variant: the data file missing, empty or in place
InitLocal == InitWith(NormCells, {"absent", "empty", "present"}, {TRUE})

NextLocal == \E na \in {<<Sentinel>>, <<>>} : DiabetesDataset(na)

SpecLocal == InitLocal /\ [][NextLocal]_vars

-----------------------------------------------------------------------------
(* Properties *)

IsFetch(l) == l.op = "fetch" /\ l.outcome \in {"returned", "raised"}

Returned(l) == l.op = "fetch" /\ l.outcome = "returned"

\* C1: a fetch with cache=True that finds the file named after the URL's last
\* segment reads the table from it, does not contact the remote source and
\* does not rewrite it; any other fetch retrieves from the remote source and,
\* with cache=True, leaves the cache folder created and the retrieved table
\* stored, so that the file exists after every successful fetch with cache=True.
C1_CachePolicy ==
  [][IsFetch(last') =>
       LET h == last'.data_home
           p == CacheFile(h)
       IN  /\ basename(p) = basename(DIABETES_URL)
           /\ IF last'.cache /\ fs[p].kind = "file"
              THEN /\ last'.hit /\ ~last'.contacted /\ ~last'.stored
                   /\ fs' = fs
                   /\ last'.outcome = "returned" => last'.df = read_csv(fs[p].text, {})
              ELSE /\ ~last'.hit /\ last'.contacted
                   /\ last'.net = "ok" =>
                        /\ last'.df = read_csv(remote, {})
                        /\ last'.cache =>
                             /\ fs'[CacheDir(h)].kind = "dir"
                             /\ fs'[p] = File(to_csv(last'.df))
           /\ Returned(last') /\ last'.cache => fs'[p].kind = "file"]_vars

C1_Witness ==
  /\ Returned(last) /\ last.cache /\ last.hit
  /\ fs[CacheFile(last.data_home)].text.lines = 1 + NRows

\* C2: of two consecutive successful fetches with cache=True and the same
\* arguments, the second returns the dataset the first returned.
C2_RoundTrip ==
  [][(Returned(last') /\ last'.prev_same) => last'.ret = last.ret]_vars

\* the second call read the cache; the table holds a column that the file
\* does not spell as the remote CSV does (3 is written 3.0, NaN as nothing)
C2_Witness ==
  /\ Returned(last) /\ last.prev_same /\ last.hit
  /\ last.df["race"].dtype = "float64"
  /\ \E i \in DOMAIN last.df["race"].vals : last.df["race"].vals[i] = NaN
  /\ \E i \in DOMAIN last.df["race"].vals : last.df["race"].vals[i] # NaN

\* C3: a fetch changes nothing but the cache folder (created) and the one cache
\* file; with cache=False it contacts the remote source, cache file or not,
\* and changes nothing at all.
C3_Frame ==
  [][last'.op = "fetch" =>
       LET h == last'.data_home
       IN  /\ \A p \in FsPaths \ {CacheDir(h), CacheFile(h)} : fs'[p] = fs[p]
           /\ fs'[CacheDir(h)] \in {fs[CacheDir(h)], Dir}
           /\ fs[CacheFile(h)].kind = "file" => fs'[CacheFile(h)] = fs[CacheFile(h)]
           /\ ~last'.cache => fs' = fs /\ last'.contacted /\ ~last'.hit]_vars

C3_Witness ==
  /\ Returned(last) /\ ~last.cache /\ last.contacted
  /\ fs[CacheFile(last.data_home)].kind = "file"
  /\ \E h \in DataHomes : fs[CacheFile(h)].kind = "absent"

RemapCell(v) ==
  IF v \in DOMAIN LabelMap THEN LabelMap[v]
  ELSE IF v = Sentinel THEN NaN
  ELSE IF v \in DOMAIN BucketMap THEN BucketMap[v]
  ELSE v

RemapCells(vals) == [i \in DOMAIN vals |-> RemapCell(vals[i])]

IsMostFrequent(v, vals) ==
  /\ v # NaN
  /\ \E i \in DOMAIN vals : vals[i] = v
  /\ \A i \in DOMAIN vals : vals[i] # NaN => Count(vals, vals[i]) <= Count(vals, v)

FirstAt(v, vals) == CHOOSE i \in DOMAIN vals : vals[i] = v /\ \A j \in 1..(i - 1) : vals[j] # v

SmallestTie(v, vals) ==
  \A i \in DOMAIN vals : IsMostFrequent(vals[i], vals) => Rank(v) <= Rank(vals[i])

FirstSeenTie(v, vals) ==
  \A i \in DOMAIN vals : IsMostFrequent(vals[i], vals) => FirstAt(v, vals) <= FirstAt(vals[i], vals)

\* the fill of every non-numeric column: observed cells keep their remapped
\* value, missing cells get a most frequent one, the tie settled as said
FilledBy(tie) ==
  Returned(last) =>
    \A c \in DataCols :
      last.norm[c].dtype = "object" =>
        LET obs == RemapCells(last.df[c].vals)
            out == last.norm[c].vals
        IN  \A i \in DOMAIN out :
              /\ out[i] # NaN
              /\ obs[i] # NaN => out[i] = obs[i]
              /\ obs[i] = NaN =>
                   /\ IsMostFrequent(out[i], obs)
                   /\ IF tie = "smallest" THEN SmallestTie(out[i], obs)
                      ELSE FirstSeenTie(out[i], obs)

\* C5 (as amended): after the three remaps every non-numeric column has its
\* missing entries replaced by its most frequent observed value, the smallest
\* one in sorted order when several are equally frequent, and is left with no
\* missing value.
C5_FillSortedMode == FilledBy("smallest")

\* C5 (as stated): ... ties broken by the value met first in row order.
C5_FillFirstSeen == FilledBy("first seen")

\* a tie whose first-met value is not the smallest, and a missing cell
C5_Witness ==
  /\ Returned(last)
  /\ SubSeq(last.df["race"].vals, 1, 3) = <<"b", "a", Sentinel>>
  /\ last.norm["race"].vals[3] = "a"

\* C6: after normalisation no cell of any column is '?'; a cell that was '?'
\* is missing or, in a non-numeric column, holds a most frequent observed
\* value of its column.
C6_NoSentinel ==
  Returned(last) =>
    \A c \in DataCols, i \in 1..NumRows(last.df) :
      /\ last.norm[c].vals[i] # Sentinel
      /\ last.df[c].vals[i] = Sentinel =>
           \/ last.norm[c].vals[i] = NaN
           \/ /\ last.norm[c].dtype = "object"
              /\ IsMostFrequent(last.norm[c].vals[i], RemapCells(last.df[c].vals))

C6_Witness ==
  /\ Returned(last)
  /\ last.df["race"].vals[1] = Sentinel /\ last.norm["race"].vals[1] = "b"
  /\ last.df["weight"].vals[2] = Sentinel /\ last.norm["weight"].vals[2] = "[75-100)"

\* a non-numeric column with no value left after the sentinel remap
EntirelyMissing(col) ==
  /\ col.dtype = "object"
  /\ col.vals # <<>>
  /\ \A i \in DOMAIN col.vals : RemapCell(col.vals[i]) = NaN

\* C7 (as stated): a fetch of a table with an entirely missing non-numeric
\* column fails and returns no dataset.
C7_EmptyColumnFails ==
  (IsFetch(last) /\ last.df # NoDF /\ \E c \in DataCols : EntirelyMissing(last.df[c])) =>
    last.outcome = "raised" /\ last.ret = NoDataset

Corrupt(f, h) ==
  /\ f[CacheFile(h)].kind = "file"
  /\ f[CacheFile(h)].text.lines < remote.lines

\* C9: a cache file left partial by a killed write stays as it is, and every
\* later fetch with cache=True for that folder reads it and does not contact
\* the remote source.
C9_CorruptCacheSticks ==
  [][\A h \in DataHomes :
       Corrupt(fs, h) =>
         /\ fs'[CacheFile(h)] = fs[CacheFile(h)]
         /\ (IsFetch(last') /\ last'.cache /\ last'.data_home = h) =>
              /\ last'.hit /\ ~last'.contacted
              /\ last'.outcome = "returned" =>
                   NumRows(last'.df) = fs[CacheFile(h)].text.lines - 1]_vars

\* a fetch returned the table of a partial cache file
C9_Witness ==
  /\ Returned(last) /\ last.cache /\ last.hit
  /\ Corrupt(fs, last.data_home)
  /\ NumRows(last.df) < NRows

\* C10: a fetch that has to retrieve from the remote source and cannot
\* (unreachable or unparseable) raises, returns no dataset, does not end the
\* process and leaves the file system as it was.
C10_FailedRetrieval ==
  [][(IsFetch(last') /\ ~last'.hit /\ last'.net # "ok") =>
       /\ last'.outcome = "raised" /\ last'.status = 0
       /\ last'.ret = NoDataset /\ last'.df = NoDF
       /\ ~last'.stored
       /\ fs' = fs]_vars

C10_Witness ==
  /\ last.op = "fetch" /\ last.outcome = "raised" /\ last.cache
  /\ last.net \in {"unreachable", "garbled"}
  /\ fs[CacheDir(last.data_home)].kind = "absent"

====
